---- MODULE Spec2Model ----
(***************************************************************************)
(* Model of scbw/docker_utils.py: launch_game and the helpers it calls     *)
(* (launch_image, running_containers, cleanup_containers,                  *)
(* container_exit_code).  The docker runtime is the environment: a         *)
(* container started by `docker run -d` runs until it exits with some      *)
(* code, at a moment of its own choosing.                                  *)
(***************************************************************************)
EXTENDS Integers, Sequences, FiniteSets, TLC

\* ---------------------------------------------------------------- bounds
MaxPlayers == 2
MaxCodes == 3
TickStep == 5
MaxPathLen == 4
MaxOpts == 2

\* ------------------------------------------------------ program constants
EXIT_CODE_REALTIME_OUTED == 2
MAX_TIME_RUNNING_SINGLE_CONTAINER == 20

\* Exit codes a container can end with.
ExitCodes == {0, 1, 2, 3}
\* Player subclasses (scbw.player).
PlayerKinds == {"BotPlayer", "HumanPlayer"}

VARIABLES
    players,          \* launch_game argument: sequence of player kinds
    read_overwrite,   \* launch_game argument
    pc,               \* position of the control thread in launch_game
    exc,              \* exception that left launch_game ("none" while running)
    nth_player,       \* index of the launch loop (line 385)
    status,           \* docker runtime: ordinal -> container state
    state_exit_code,  \* docker runtime: ordinal -> .State.ExitCode
    run_calls,        \* the `docker run` calls issued, in order: <<nth_player, player>>
    run_code,         \* completion status of the last `docker run`
    container_id,     \* result of the last name-filtered lookup in launch_image
    files_removed,    \* the pre-existing artifact files were deleted
    queried,          \* some runtime query (docker ps / inspect) was issued
    vnc_viewers,      \* number of viewers launched
    start_containers, \* local of launch_game (line 390)
    containers,       \* local of launch_game (line 409)
    elapsed,          \* time.time() - running_time, saturating above the threshold
    exit_codes,       \* local of launch_game (line 428)
    inspected,        \* containers whose exit code was inspected
    rm_calls,         \* number of `docker rm` calls issued
    synced,           \* <<ordinal of player, ordinal in the copied dir name>>
    last_nonempty,    \* history: last non-empty list a poll observed
    seen_multi,       \* history: some poll of the loop observed >= 2 containers
    stop_calls,       \* number of `docker stop` calls issued
    rm_args,          \* container list of the last `docker rm` call
    rm_code,          \* completion status of the last `docker rm` (dropped by the code)
    launch_args,      \* launch_image arguments the command is built from
    cmd,              \* local of launch_image (lines 233-324)
    entrypoint_opts,  \* local of launch_image (lines 307-322)
    host_mount        \* xoscmounts argument and, after the call, its result

vars == <<players, read_overwrite, pc, exc, nth_player, status, state_exit_code,
          run_calls, run_code, container_id, files_removed, queried, vnc_viewers,
          start_containers, containers, elapsed, exit_codes, inspected,
          rm_calls, synced, last_nonempty, seen_multi, stop_calls, rm_args,
          rm_code, launch_args, cmd, entrypoint_opts, host_mount>>

\* the variables of launch_image's command and of xoscmounts
cmd_vars == <<launch_args, cmd, entrypoint_opts, host_mount>>

\* ---------------------------------------------------------------- helpers
Ordinals == 0 .. (Len(players) - 1)

Max(S) == CHOOSE x \in S : \A y \in S : y <= x

Min2(a, b) == IF a <= b THEN a ELSE b

\* `docker ps -q` lists the newest container first.
RECURSIVE PsOrder(_)
PsOrder(S) == IF S = {} THEN <<>> ELSE <<Max(S)>> \o PsOrder(S \ {Max(S)})

Range(s) == {s[k] : k \in 1 .. Len(s)}

\* running_containers(name_filter): ids of the running containers of the game
running_containers == PsOrder({c \in Ordinals : status[c] = "running"})

\* container_exit_code(container): {{.State.ExitCode}} is 0 for a running one
container_exit_code(c) == state_exit_code[c]

\* any(exit_code == code for exit_code in exit_codes)
AnyCode(codes, code) == \E k \in 1 .. Len(codes) : codes[k] = code

\* Classify with the two tests swapped: the generic error code is tested first.
Classify_ErrorFirst(codes) ==
    IF AnyCode(codes, 1) THEN "ContainerException"
    ELSE IF AnyCode(codes, EXIT_CODE_REALTIME_OUTED) THEN "RealtimeOutedException"
    ELSE "none"

\* lines 434-437 as a function of exit_codes
Classify(codes) ==
    IF AnyCode(codes, EXIT_CODE_REALTIME_OUTED) THEN "RealtimeOutedException"
    ELSE IF AnyCode(codes, 1) THEN "ContainerException"
    ELSE "none"

\* ------------------------------------------------------------------- Init
SeqsUpTo(S, n) == UNION {[1 .. k -> S] : k \in 0 .. n}

\* launch_image and xoscmounts not entered
NoCommand ==
    /\ launch_args = [player |-> "BotPlayer", nth_player |-> 0,
                      headless |-> TRUE, docker_opts |-> <<>>,
                      java_debug_port |-> FALSE, timeout |-> FALSE]
    /\ cmd = <<>>
    /\ entrypoint_opts = <<>>
    /\ host_mount = <<>>

InitLocals ==
    /\ exc = "none"
    /\ nth_player = 0
    /\ status = [c \in Ordinals |-> "absent"]
    /\ state_exit_code = [c \in Ordinals |-> 0]
    /\ run_calls = <<>>
    /\ run_code = 0
    /\ container_id = "unset"
    /\ files_removed = FALSE
    /\ queried = FALSE
    /\ vnc_viewers = 0
    /\ start_containers = <<>>
    /\ containers = <<>>
    /\ elapsed = 0
    /\ exit_codes = <<>>
    /\ inspected = {}
    /\ rm_calls = 0
    /\ synced = {}
    /\ last_nonempty = <<>>
    /\ seen_multi = FALSE
    /\ stop_calls = 0
    /\ rm_args = <<>>
    /\ rm_code = 0
    /\ NoCommand

Init ==
    /\ players \in SeqsUpTo(PlayerKinds, MaxPlayers)
    /\ read_overwrite \in BOOLEAN
    /\ pc = "start"
    /\ InitLocals

\* ------------------------------------------------------------ environment
\* A running container ends with some exit code.
ContainerExit ==
    /\ pc \notin {"raised", "returned"}
    /\ \E c \in Ordinals, code \in ExitCodes :
          /\ status[c] = "running"
          /\ status' = [status EXCEPT ![c] = "exited"]
          /\ state_exit_code' = [state_exit_code EXCEPT ![c] = code]
    /\ UNCHANGED <<players, read_overwrite, pc, exc, nth_player, run_calls,
                   run_code, container_id, files_removed, queried, vnc_viewers,
                   start_containers, containers, elapsed, exit_codes, inspected,
                   rm_calls, synced, last_nonempty, seen_multi>>
    /\ UNCHANGED <<stop_calls, rm_args, rm_code>>
    /\ UNCHANGED cmd_vars

\* The clock advances while the control thread is in the poll loop.
Tick ==
    /\ pc \in {"poll", "check", "wait"}
    /\ elapsed <= MAX_TIME_RUNNING_SINGLE_CONTAINER
    /\ elapsed' = Min2(elapsed + TickStep, MAX_TIME_RUNNING_SINGLE_CONTAINER + 1)
    /\ UNCHANGED <<players, read_overwrite, pc, exc, nth_player, status,
                   state_exit_code, run_calls, run_code, container_id,
                   files_removed, queried, vnc_viewers, start_containers,
                   containers, exit_codes, inspected, rm_calls, synced,
                   last_nonempty, seen_multi>>
    /\ UNCHANGED <<stop_calls, rm_args, rm_code>>
    /\ UNCHANGED cmd_vars

\* ------------------------------------------------------------ launch_game
\* CheckPlayers without the test of line 373: the empty list is let through.
CheckPlayers_NoRaise ==
    /\ pc = "start"
    /\ pc' = "remove_files"
    /\ UNCHANGED <<players, read_overwrite, exc, nth_player, status,
                   state_exit_code, run_calls, run_code, container_id,
                   files_removed, queried, vnc_viewers, start_containers,
                   containers, elapsed, exit_codes, inspected, rm_calls, synced,
                   last_nonempty, seen_multi>>
    /\ UNCHANGED <<stop_calls, rm_args, rm_code>>
    /\ UNCHANGED cmd_vars

\* lines 373-374
CheckPlayers ==
    /\ pc = "start"
    /\ IF Len(players) = 0
       THEN pc' = "raised" /\ exc' = "GameException"
       ELSE pc' = "remove_files" /\ exc' = exc
    /\ UNCHANGED <<players, read_overwrite, nth_player, status, state_exit_code,
                   run_calls, run_code, container_id, files_removed, queried,
                   vnc_viewers, start_containers, containers, elapsed,
                   exit_codes, inspected, rm_calls, synced, last_nonempty,
                   seen_multi>>
    /\ UNCHANGED <<stop_calls, rm_args, rm_code>>
    /\ UNCHANGED cmd_vars

\* lines 377-383
RemoveExistingFiles ==
    /\ pc = "remove_files"
    /\ files_removed' = TRUE
    /\ pc' = "launch"
    /\ UNCHANGED <<players, read_overwrite, exc, nth_player, status,
                   state_exit_code, run_calls, run_code, container_id, queried,
                   vnc_viewers, start_containers, containers, elapsed,
                   exit_codes, inspected, rm_calls, synced, last_nonempty,
                   seen_multi>>
    /\ UNCHANGED <<stop_calls, rm_args, rm_code>>
    /\ UNCHANGED cmd_vars

\* DockerRun with enumerate(players, 1): the ordinals are counted from 1.
DockerRun_FromOne ==
    /\ pc = "launch"
    /\ nth_player < Len(players)
    /\ run_calls' = Append(run_calls, <<nth_player + 1, players[nth_player + 1]>>)
    /\ \E code \in {0, 1} :
          /\ run_code' = code
          /\ status' = IF code = 0
                       THEN [status EXCEPT ![nth_player] = "running"]
                       ELSE status
    /\ pc' = "launched"
    /\ UNCHANGED <<players, read_overwrite, exc, nth_player, state_exit_code,
                   container_id, files_removed, queried, vnc_viewers,
                   start_containers, containers, elapsed, exit_codes, inspected,
                   rm_calls, synced, last_nonempty, seen_multi>>
    /\ UNCHANGED <<stop_calls, rm_args, rm_code>>
    /\ UNCHANGED cmd_vars

\* line 386 entering launch_image, up to line 327: subprocess.call(cmd)
DockerRun ==
    /\ pc = "launch"
    /\ nth_player < Len(players)
    /\ run_calls' = Append(run_calls, <<nth_player, players[nth_player + 1]>>)
    /\ \E code \in {0, 1} :
          /\ run_code' = code
          /\ status' = IF code = 0
                       THEN [status EXCEPT ![nth_player] = "running"]
                       ELSE status
    /\ pc' = "launched"
    /\ UNCHANGED <<players, read_overwrite, exc, nth_player, state_exit_code,
                   container_id, files_removed, queried, vnc_viewers,
                   start_containers, containers, elapsed, exit_codes, inspected,
                   rm_calls, synced, last_nonempty, seen_multi>>
    /\ UNCHANGED <<stop_calls, rm_args, rm_code>>
    /\ UNCHANGED cmd_vars

\* LaunchResult with a test of container_id: an empty lookup fails the launch too.
LaunchResult_RaiseOnEmpty ==
    /\ pc = "launched"
    /\ IF run_code = 0 /\ status[nth_player] = "running"
       THEN /\ container_id' = "found"
            /\ queried' = TRUE
            /\ nth_player' = nth_player + 1
            /\ pc' = IF nth_player + 1 < Len(players) THEN "launch" ELSE "settle"
            /\ exc' = exc
       ELSE /\ pc' = "raised"
            /\ exc' = "DockerException"
            /\ container_id' = IF run_code = 0 THEN "empty" ELSE container_id
            /\ queried' = (queried \/ run_code = 0)
            /\ UNCHANGED nth_player
    /\ UNCHANGED <<players, read_overwrite, status, state_exit_code, run_calls,
                   run_code, files_removed, vnc_viewers, start_containers,
                   containers, elapsed, exit_codes, inspected, rm_calls, synced,
                   last_nonempty, seen_multi>>
    /\ UNCHANGED <<stop_calls, rm_args, rm_code>>
    /\ UNCHANGED cmd_vars

\* lines 329-339 of launch_image, then the next turn of the loop of line 385
\* LaunchResult removing the containers started so far before it raises.
LaunchResult_CleanupOnFailure ==
    /\ pc = "launched"
    /\ IF run_code = 0
       THEN /\ container_id' = IF status[nth_player] = "running"
                               THEN "found" ELSE "empty"
            /\ queried' = TRUE
            /\ nth_player' = nth_player + 1
            /\ pc' = IF nth_player + 1 < Len(players) THEN "launch" ELSE "settle"
            /\ exc' = exc
            /\ UNCHANGED <<status, rm_calls>>
       ELSE /\ pc' = "raised"
            /\ exc' = "DockerException"
            /\ rm_calls' = rm_calls + 1
            /\ status' = [c \in Ordinals |->
                            IF status[c] \in {"running", "exited"}
                            THEN "removed" ELSE status[c]]
            /\ UNCHANGED <<container_id, queried, nth_player>>
    /\ UNCHANGED <<players, read_overwrite, state_exit_code, run_calls,
                   run_code, files_removed, vnc_viewers, start_containers,
                   containers, elapsed, exit_codes, inspected, synced,
                   last_nonempty, seen_multi>>
    /\ UNCHANGED <<stop_calls, rm_args, rm_code>>
    /\ UNCHANGED cmd_vars

LaunchResult ==
    /\ pc = "launched"
    /\ IF run_code = 0
       THEN /\ container_id' = IF status[nth_player] = "running"
                               THEN "found" ELSE "empty"
            /\ queried' = TRUE
            /\ nth_player' = nth_player + 1
            /\ pc' = IF nth_player + 1 < Len(players) THEN "launch" ELSE "settle"
            /\ exc' = exc
       ELSE /\ pc' = "raised"
            /\ exc' = "DockerException"
            /\ UNCHANGED <<container_id, queried, nth_player>>
    /\ UNCHANGED <<players, read_overwrite, status, state_exit_code, run_calls,
                   run_code, files_removed, vnc_viewers, start_containers,
                   containers, elapsed, exit_codes, inspected, rm_calls, synced,
                   last_nonempty, seen_multi>>
    /\ UNCHANGED <<stop_calls, rm_args, rm_code>>
    /\ UNCHANGED cmd_vars

\* SettleCheck without line 391: the count is taken but not compared.
SettleCheck_NoRaise ==
    /\ pc = "settle"
    /\ start_containers' = running_containers
    /\ queried' = TRUE
    /\ pc' = "viewers"
    /\ UNCHANGED <<players, read_overwrite, exc, nth_player, status,
                   state_exit_code, run_calls, run_code, container_id,
                   files_removed, vnc_viewers, containers, elapsed, exit_codes,
                   inspected, rm_calls, synced, last_nonempty, seen_multi>>
    /\ UNCHANGED <<stop_calls, rm_args, rm_code>>
    /\ UNCHANGED cmd_vars

\* lines 388-392
SettleCheck ==
    /\ pc = "settle"
    /\ start_containers' = running_containers
    /\ queried' = TRUE
    /\ IF Len(start_containers') # Len(players)
       THEN pc' = "raised" /\ exc' = "DockerException"
       ELSE pc' = "viewers" /\ exc' = exc
    /\ UNCHANGED <<players, read_overwrite, nth_player, status, state_exit_code,
                   run_calls, run_code, container_id, files_removed, vnc_viewers,
                   containers, elapsed, exit_codes, inspected, rm_calls, synced,
                   last_nonempty, seen_multi>>
    /\ UNCHANGED <<stop_calls, rm_args, rm_code>>
    /\ UNCHANGED cmd_vars

\* lines 394-407: the viewers, then running_time = time.time()
LaunchViewers ==
    /\ pc = "viewers"
    /\ \E headless \in BOOLEAN, show_all \in BOOLEAN :
          vnc_viewers' = IF headless THEN 0
                         ELSE IF show_all THEN Len(players) ELSE 1
    /\ elapsed' = 0
    /\ pc' = "poll"
    /\ UNCHANGED <<players, read_overwrite, exc, nth_player, status,
                   state_exit_code, run_calls, run_code, container_id,
                   files_removed, queried, start_containers, containers,
                   exit_codes, inspected, rm_calls, synced, last_nonempty,
                   seen_multi>>
    /\ UNCHANGED <<stop_calls, rm_args, rm_code>>
    /\ UNCHANGED cmd_vars

\* line 409
Poll ==
    /\ pc = "poll"
    /\ containers' = running_containers
    /\ queried' = TRUE
    /\ last_nonempty' = IF Len(containers') > 0 THEN containers' ELSE last_nonempty
    /\ seen_multi' = (seen_multi \/ Len(containers') >= 2)
    /\ pc' = "check"
    /\ UNCHANGED <<players, read_overwrite, exc, nth_player, status,
                   state_exit_code, run_calls, run_code, container_id,
                   files_removed, vnc_viewers, start_containers, elapsed,
                   exit_codes, inspected, rm_calls, synced>>
    /\ UNCHANGED <<stop_calls, rm_args, rm_code>>
    /\ UNCHANGED cmd_vars

\* CheckContainers without lines 416-423: the lingering-container test is missing.
CheckContainers_NoLingering ==
    /\ pc = "check"
    /\ IF Len(containers) = 0
       THEN pc' = "inspect" /\ elapsed' = elapsed
       ELSE IF Len(containers) >= 2
       THEN pc' = "wait" /\ elapsed' = 0
       ELSE pc' = "wait" /\ elapsed' = elapsed
    /\ UNCHANGED <<players, read_overwrite, exc, nth_player, status,
                   state_exit_code, run_calls, run_code, container_id,
                   files_removed, queried, vnc_viewers, start_containers,
                   containers, exit_codes, inspected, rm_calls, synced,
                   last_nonempty, seen_multi>>
    /\ UNCHANGED <<stop_calls, rm_args, rm_code>>
    /\ UNCHANGED cmd_vars

\* CheckContainers with the timeout tested before running_time is updated
\* and for any number of containers.
CheckContainers_AnyLingering ==
    /\ pc = "check"
    /\ IF Len(containers) = 0
       THEN pc' = "inspect" /\ exc' = exc /\ elapsed' = elapsed
       ELSE IF elapsed > MAX_TIME_RUNNING_SINGLE_CONTAINER
       THEN pc' = "raised" /\ exc' = "ContainerException" /\ elapsed' = elapsed
       ELSE IF Len(containers) >= 2
       THEN pc' = "wait" /\ exc' = exc /\ elapsed' = 0
       ELSE pc' = "wait" /\ exc' = exc /\ elapsed' = elapsed
    /\ UNCHANGED <<players, read_overwrite, nth_player, status, state_exit_code,
                   run_calls, run_code, container_id, files_removed, queried,
                   vnc_viewers, start_containers, containers, exit_codes,
                   inspected, rm_calls, synced, last_nonempty, seen_multi>>
    /\ UNCHANGED <<stop_calls, rm_args, rm_code>>
    /\ UNCHANGED cmd_vars

\* CheckContainers with running_time unset until a poll observes >= 2
\* containers: the timeout cannot fire before that.
CheckContainers_AfterMultiOnly ==
    /\ pc = "check"
    /\ IF Len(containers) = 0
       THEN pc' = "inspect" /\ exc' = exc /\ elapsed' = elapsed
       ELSE IF Len(containers) >= 2
       THEN pc' = "wait" /\ exc' = exc /\ elapsed' = 0
       ELSE IF seen_multi /\ elapsed > MAX_TIME_RUNNING_SINGLE_CONTAINER
       THEN pc' = "raised" /\ exc' = "ContainerException" /\ elapsed' = elapsed
       ELSE pc' = "wait" /\ exc' = exc /\ elapsed' = elapsed
    /\ UNCHANGED <<players, read_overwrite, nth_player, status, state_exit_code,
                   run_calls, run_code, container_id, files_removed, queried,
                   vnc_viewers, start_containers, containers, exit_codes,
                   inspected, rm_calls, synced, last_nonempty, seen_multi>>
    /\ UNCHANGED <<stop_calls, rm_args, rm_code>>
    /\ UNCHANGED cmd_vars

\* lines 411-425
CheckContainers ==
    /\ pc = "check"
    /\ IF Len(containers) = 0
       THEN pc' = "inspect" /\ exc' = exc /\ elapsed' = elapsed
       ELSE IF Len(containers) >= 2
       THEN pc' = "wait" /\ exc' = exc /\ elapsed' = 0
       ELSE IF elapsed > MAX_TIME_RUNNING_SINGLE_CONTAINER
       THEN pc' = "raised" /\ exc' = "ContainerException" /\ elapsed' = elapsed
       ELSE pc' = "wait" /\ exc' = exc /\ elapsed' = elapsed
    /\ UNCHANGED <<players, read_overwrite, nth_player, status, state_exit_code,
                   run_calls, run_code, container_id, files_removed, queried,
                   vnc_viewers, start_containers, containers, exit_codes,
                   inspected, rm_calls, synced, last_nonempty, seen_multi>>
    /\ UNCHANGED <<stop_calls, rm_args, rm_code>>
    /\ UNCHANGED cmd_vars

\* line 426
WaitCallback ==
    /\ pc = "wait"
    /\ pc' = "poll"
    /\ UNCHANGED <<players, read_overwrite, exc, nth_player, status,
                   state_exit_code, run_calls, run_code, container_id,
                   files_removed, queried, vnc_viewers, start_containers,
                   containers, elapsed, exit_codes, inspected, rm_calls, synced,
                   last_nonempty, seen_multi>>
    /\ UNCHANGED <<stop_calls, rm_args, rm_code>>
    /\ UNCHANGED cmd_vars

\* line 428
InspectExitCodes ==
    /\ pc = "inspect"
    /\ exit_codes' = [k \in 1 .. Len(containers) |-> container_exit_code(containers[k])]
    /\ inspected' = inspected \cup Range(containers)
    /\ queried' = (queried \/ Len(containers) > 0)
    /\ pc' = "cleanup"
    /\ UNCHANGED <<players, read_overwrite, exc, nth_player, status,
                   state_exit_code, run_calls, run_code, container_id,
                   files_removed, vnc_viewers, start_containers, containers,
                   elapsed, rm_calls, synced, last_nonempty, seen_multi>>
    /\ UNCHANGED <<stop_calls, rm_args, rm_code>>
    /\ UNCHANGED cmd_vars

\* CleanupContainers handed `containers`, the list of the last poll.
CleanupContainers_LastPoll ==
    /\ pc = "cleanup"
    /\ IF Len(containers) > 0
       THEN /\ rm_calls' = rm_calls + 1
            /\ rm_args' = containers
            /\ \E rm_ok \in BOOLEAN :
                  /\ rm_code' = IF rm_ok THEN 0 ELSE 1
                  /\ status' = [c \in Ordinals |->
                                  IF rm_ok /\ c \in Range(containers)
                                           /\ status[c] = "exited"
                                  THEN "removed" ELSE status[c]]
       ELSE UNCHANGED <<rm_calls, rm_args, rm_code, status>>
    /\ pc' = "classify"
    /\ UNCHANGED <<players, read_overwrite, exc, nth_player, state_exit_code,
                   run_calls, run_code, container_id, files_removed, queried,
                   vnc_viewers, start_containers, containers, elapsed,
                   exit_codes, inspected, synced, last_nonempty, seen_multi>>
    /\ UNCHANGED stop_calls
    /\ UNCHANGED cmd_vars

\* lines 430-432 with cleanup_containers, lines 355-357: the status of
\* `docker rm` is dropped; a failed call leaves the containers in place
\* CleanupContainers with the status of `docker rm` checked, as the helper
\* of lines 175-179 does: a nonzero status raises DockerException.
CleanupContainers_RaiseOnFailure ==
    /\ pc = "cleanup"
    /\ IF Len(start_containers) > 0
       THEN /\ rm_calls' = rm_calls + 1
            /\ rm_args' = start_containers
            /\ \E rm_ok \in BOOLEAN :
                  /\ rm_code' = IF rm_ok THEN 0 ELSE 1
                  /\ status' = [c \in Ordinals |->
                                  IF rm_ok /\ c \in Range(start_containers)
                                           /\ status[c] = "exited"
                                  THEN "removed" ELSE status[c]]
                  /\ pc' = IF rm_ok THEN "classify" ELSE "raised"
                  /\ exc' = IF rm_ok THEN exc ELSE "DockerException"
       ELSE /\ UNCHANGED <<rm_calls, rm_args, rm_code, status, exc>>
            /\ pc' = "classify"
    /\ UNCHANGED <<players, read_overwrite, nth_player, state_exit_code,
                   run_calls, run_code, container_id, files_removed, queried,
                   vnc_viewers, start_containers, containers, elapsed,
                   exit_codes, inspected, synced, last_nonempty, seen_multi>>
    /\ UNCHANGED stop_calls
    /\ UNCHANGED cmd_vars

CleanupContainers ==
    /\ pc = "cleanup"
    /\ IF Len(start_containers) > 0
       THEN /\ rm_calls' = rm_calls + 1
            /\ rm_args' = start_containers
            /\ \E rm_ok \in BOOLEAN :
                  /\ rm_code' = IF rm_ok THEN 0 ELSE 1
                  /\ status' = [c \in Ordinals |->
                                  IF rm_ok /\ c \in Range(start_containers)
                                           /\ status[c] = "exited"
                                  THEN "removed" ELSE status[c]]
       ELSE UNCHANGED <<rm_calls, rm_args, rm_code, status>>
    /\ pc' = "classify"
    /\ UNCHANGED <<players, read_overwrite, exc, nth_player, state_exit_code,
                   run_calls, run_code, container_id, files_removed, queried,
                   vnc_viewers, start_containers, containers, elapsed,
                   exit_codes, inspected, synced, last_nonempty, seen_multi>>
    /\ UNCHANGED stop_calls
    /\ UNCHANGED cmd_vars

\* lines 434-437
RaiseOutcome ==
    /\ pc = "classify"
    /\ IF Classify(exit_codes) = "none"
       THEN pc' = "sync" /\ exc' = exc
       ELSE pc' = "raised" /\ exc' = Classify(exit_codes)
    /\ UNCHANGED <<players, read_overwrite, nth_player, status, state_exit_code,
                   run_calls, run_code, container_id, files_removed, queried,
                   vnc_viewers, start_containers, containers, elapsed,
                   exit_codes, inspected, rm_calls, synced, last_nonempty,
                   seen_multi>>
    /\ UNCHANGED <<stop_calls, rm_args, rm_code>>
    /\ UNCHANGED cmd_vars

\* lines 439-445
OverwriteBotFiles ==
    /\ pc = "sync"
    /\ synced' = IF read_overwrite
                 THEN {<<n, n>> : n \in {m \in Ordinals : players[m + 1] = "BotPlayer"}}
                 ELSE synced
    /\ pc' = "returned"
    /\ UNCHANGED <<players, read_overwrite, exc, nth_player, status,
                   state_exit_code, run_calls, run_code, container_id,
                   files_removed, queried, vnc_viewers, start_containers,
                   containers, elapsed, exit_codes, inspected, rm_calls,
                   last_nonempty, seen_multi>>
    /\ UNCHANGED <<stop_calls, rm_args, rm_code>>
    /\ UNCHANGED cmd_vars

Next ==
    \/ ContainerExit
    \/ Tick
    \/ CheckPlayers
    \/ RemoveExistingFiles
    \/ DockerRun
    \/ LaunchResult
    \/ SettleCheck
    \/ LaunchViewers
    \/ Poll
    \/ CheckContainers
    \/ WaitCallback
    \/ InspectExitCodes
    \/ CleanupContainers
    \/ RaiseOutcome
    \/ OverwriteBotFiles

Spec == Init /\ [][Next]_vars

\* The poll loop reads neither the player classes nor read_overwrite.
InitMonitor ==
    /\ players \in SeqsUpTo({"BotPlayer"}, MaxPlayers)
    /\ read_overwrite = FALSE
    /\ pc = "start"
    /\ InitLocals

\* Lines 434-437 applied to every sequence of up to MaxCodes exit codes.
InitClassify ==
    /\ players = <<"BotPlayer">>
    /\ read_overwrite = FALSE
    /\ pc = "classify"
    /\ exc = "none"
    /\ nth_player = 0
    /\ status = [c \in Ordinals |-> "absent"]
    /\ state_exit_code = [c \in Ordinals |-> 0]
    /\ run_calls = <<>>
    /\ run_code = 0
    /\ container_id = "unset"
    /\ files_removed = FALSE
    /\ queried = FALSE
    /\ vnc_viewers = 0
    /\ start_containers = <<>>
    /\ containers = <<>>
    /\ elapsed = 0
    /\ exit_codes \in SeqsUpTo(ExitCodes, MaxCodes)
    /\ inspected = {}
    /\ rm_calls = 0
    /\ synced = {}
    /\ last_nonempty = <<>>
    /\ seen_multi = FALSE
    /\ stop_calls = 0
    /\ rm_args = <<>>
    /\ rm_code = 0
    /\ NoCommand

NextClassify == RaiseOutcome

ClassifySpec == InitClassify /\ [][NextClassify]_vars

\* StopContainers without the test of line 351: `docker stop` is always issued.
StopContainers_NoGuard ==
    /\ pc = "stop"
    /\ stop_calls' = stop_calls + 1
    /\ \E stop_ok \in BOOLEAN, code \in ExitCodes :
          /\ status' = [c \in Ordinals |->
                          IF stop_ok /\ c \in Range(containers)
                                     /\ status[c] = "running"
                          THEN "exited" ELSE status[c]]
          /\ state_exit_code' = [c \in Ordinals |->
                          IF status[c] # status'[c] THEN code ELSE state_exit_code[c]]
    /\ pc' = "stopped"
    /\ UNCHANGED <<players, read_overwrite, exc, nth_player, run_calls, run_code,
                   container_id, files_removed, queried, vnc_viewers,
                   start_containers, containers, elapsed, exit_codes, inspected,
                   rm_calls, synced, last_nonempty, seen_multi>>
    /\ UNCHANGED <<rm_args, rm_code>>
    /\ UNCHANGED cmd_vars

\* stop_containers(containers), lines 350-352: the status of `docker stop`
\* is dropped; a successful call ends the running containers of the list
StopContainers ==
    /\ pc = "stop"
    /\ IF Len(containers) > 0
       THEN /\ stop_calls' = stop_calls + 1
            /\ \E stop_ok \in BOOLEAN, code \in ExitCodes :
                  /\ status' = [c \in Ordinals |->
                                  IF stop_ok /\ c \in Range(containers)
                                             /\ status[c] = "running"
                                  THEN "exited" ELSE status[c]]
                  /\ state_exit_code' = [c \in Ordinals |->
                                  IF status[c] # status'[c]
                                  THEN code ELSE state_exit_code[c]]
       ELSE UNCHANGED <<stop_calls, status, state_exit_code>>
    /\ pc' = "stopped"
    /\ UNCHANGED <<players, read_overwrite, exc, nth_player, run_calls, run_code,
                   container_id, files_removed, queried, vnc_viewers,
                   start_containers, containers, elapsed, exit_codes, inspected,
                   rm_calls, synced, last_nonempty, seen_multi>>
    /\ UNCHANGED <<rm_args, rm_code>>
    /\ UNCHANGED cmd_vars

\* stop_containers and cleanup_containers called with any list of the
\* game's containers, the empty one included.
InitCleanup ==
    /\ players \in SeqsUpTo(PlayerKinds, MaxPlayers)
    /\ read_overwrite = FALSE
    /\ pc \in {"stop", "cleanup"}
    /\ exc = "none"
    /\ nth_player = Len(players)
    /\ status \in [Ordinals -> {"running", "exited"}]
    /\ state_exit_code = [c \in Ordinals |-> 0]
    /\ run_calls = [k \in 1 .. Len(players) |-> <<k - 1, players[k]>>]
    /\ run_code = 0
    /\ container_id = "found"
    /\ files_removed = TRUE
    /\ queried = TRUE
    /\ vnc_viewers = 0
    /\ \E S \in SUBSET Ordinals :
          /\ start_containers = PsOrder(S)
          /\ containers = PsOrder(S)
    /\ elapsed = 0
    /\ exit_codes = <<>>
    /\ inspected = {}
    /\ rm_calls = 0
    /\ synced = {}
    /\ last_nonempty = <<>>
    /\ seen_multi = FALSE
    /\ stop_calls = 0
    /\ rm_args = <<>>
    /\ rm_code = 0
    /\ NoCommand

NextCleanup ==
    \/ StopContainers
    \/ CleanupContainers

CleanupSpec == InitCleanup /\ [][NextCleanup]_vars

\* ------------------------------------------------------------- xoscmounts
\* A path is a sequence of characters; these stand for an upper-case
\* letter, two lower-case letters, the colon and the two separators.
PathChars == {"C", "c", "x", ":", "\\", "/"}

\* [a-zA-Z]
IsLetter(ch) == ch \in {"C", "c", "x"}

\* [a-z]
IsLowerLetter(ch) == ch \in {"c", "x"}

\* str.lower() on one letter
Lower(ch) == IF ch = "C" THEN "c" ELSE ch

\* line 194: re.sub(r"^([a-zA-Z])\:", callback_lower_drive_letter, host_mount)
LowerDriveLetter(path) ==
    IF Len(path) >= 2 /\ IsLetter(path[1]) /\ path[2] = ":"
    THEN <<Lower(path[1])>> \o SubSeq(path, 3, Len(path))
    ELSE path

\* line 195: re.sub(r"^([a-z])", "//\\1", host_mount)
PrefixSlashes(path) ==
    IF Len(path) >= 1 /\ IsLowerLetter(path[1])
    THEN <<"/", "/">> \o path
    ELSE path

\* line 196: re.sub(r"\\", "/", host_mount)
ForwardSlashes(path) ==
    [k \in 1 .. Len(path) |-> IF path[k] = "\\" THEN "/" ELSE path[k]]

\* xoscmounts with lines 194 and 195 in the other order.
xoscmounts_PrefixFirst(path) ==
    ForwardSlashes(LowerDriveLetter(PrefixSlashes(path)))

\* xoscmounts(host_mount), lines 189-197
xoscmounts(path) ==
    ForwardSlashes(PrefixSlashes(LowerDriveLetter(path)))

\* host_mount = xoscmounts(host_mount), on the argument and then on the result
Normalize ==
    /\ pc \in {"xoscmounts", "normalized"}
    /\ host_mount' = xoscmounts(host_mount)
    /\ pc' = IF pc = "xoscmounts" THEN "normalized" ELSE "normalized_twice"
    /\ UNCHANGED <<players, read_overwrite, exc, nth_player, status,
                   state_exit_code, run_calls, run_code, container_id,
                   files_removed, queried, vnc_viewers, start_containers,
                   containers, elapsed, exit_codes, inspected, rm_calls, synced,
                   last_nonempty, seen_multi>>
    /\ UNCHANGED <<stop_calls, rm_args, rm_code>>
    /\ UNCHANGED <<launch_args, cmd, entrypoint_opts>>

\* xoscmounts called with every path of up to MaxPathLen characters.
InitNormalize ==
    /\ players = <<>>
    /\ read_overwrite = FALSE
    /\ pc = "xoscmounts"
    /\ exc = "none"
    /\ nth_player = 0
    /\ status = [c \in Ordinals |-> "absent"]
    /\ state_exit_code = [c \in Ordinals |-> 0]
    /\ run_calls = <<>>
    /\ run_code = 0
    /\ container_id = "unset"
    /\ files_removed = FALSE
    /\ queried = FALSE
    /\ vnc_viewers = 0
    /\ start_containers = <<>>
    /\ containers = <<>>
    /\ elapsed = 0
    /\ exit_codes = <<>>
    /\ inspected = {}
    /\ rm_calls = 0
    /\ synced = {}
    /\ last_nonempty = <<>>
    /\ seen_multi = FALSE
    /\ stop_calls = 0
    /\ rm_args = <<>>
    /\ rm_code = 0
    /\ launch_args = [player |-> "BotPlayer", nth_player |-> 0,
                      headless |-> TRUE, docker_opts |-> <<>>,
                      java_debug_port |-> FALSE, timeout |-> FALSE]
    /\ cmd = <<>>
    /\ entrypoint_opts = <<>>
    /\ host_mount \in SeqsUpTo(PathChars, MaxPathLen)

NextNormalize == Normalize

NormalizeSpec == InitNormalize /\ [][NextNormalize]_vars

\* ----------------------------------------------------------- launch_image
\* The command is a sequence of tokens; paths, names and values that no
\* branch of launch_image looks at are written as one fixed token each.
\* Tokens a caller can put in docker_opts: the network option in its
\* spellings, a value, and an unrelated flag.
OptTokens == {"--net", "--network", "--net=host", "host", "--rm"}

\* a fixed prefix of the command, lines 233-244
CmdHead ==
    <<"docker", "run", "-d", "--privileged", "--name", "container_name",
      "--volume", "log_dir:/app/logs:rw",
      "--volume", "map_dir:/app/sc/maps:rw",
      "--volume", "bwta_dir:/app/sc/bwapi-data/BWTA:rw",
      "--volume", "bwta2_dir:/app/sc/bwapi-data/BWTA2:rw">>

\* lines 249-251
NetOption(docker_opts) ==
    IF "--net" \notin Range(docker_opts) THEN <<"--net", "sc_net">> ELSE <<>>

\* lines 253-254
VncPort(headless) ==
    IF ~headless THEN <<"-p", "vnc_port:5900">> ELSE <<>>

\* lines 256-265
BotMounts(args) ==
    IF args.player = "BotPlayer"
    THEN <<"--volume", "bot_write_dir:/app/sc/bwapi-data/write:rw",
           "--volume", "bot_dir:/app/bot:ro">>
         \o (IF args.java_debug_port THEN <<"-p", "java_debug_port">> ELSE <<>>)
    ELSE <<>>

\* lines 267-296: the keys of env, in insertion order
EnvKeys(args) ==
    <<"PLAYER_NAME", "PLAYER_RACE", "NTH_PLAYER", "NUM_PLAYERS", "GAME_NAME",
      "MAP_NAME", "GAME_TYPE", "SPEED_OVERRIDE", "HIDE_NAMES", "DROP_PLAYERS",
      "TM_LOG_RESULTS", "TM_LOG_FRAMETIMES", "TM_SPEED_OVERRIDE",
      IF args.player = "HumanPlayer"
      THEN "TM_ALLOW_USER_INPUT=1" ELSE "TM_ALLOW_USER_INPUT=0",
      "EXIT_CODE_REALTIME_OUTED=2",
      IF args.player = "BotPlayer" /\ args.java_debug_port
      THEN "JAVA_DEBUG=1" ELSE "JAVA_DEBUG=0">>
    \o (IF args.player = "BotPlayer" THEN <<"BOT_FILE", "BOT_BWAPI">> ELSE <<>>)
    \o (IF args.player = "BotPlayer" /\ args.java_debug_port
        THEN <<"JAVA_DEBUG_PORT">> ELSE <<>>)
    \o (IF args.timeout THEN <<"PLAY_TIMEOUT">> ELSE <<>>)

\* lines 298-299
EnvOptions(keys) ==
    [k \in 1 .. 2 * Len(keys) |-> IF k % 2 = 1 THEN "-e" ELSE keys[k \div 2]]

\* lines 301-305
ImageAndScript(args) ==
    <<"docker_image",
      IF args.player = "BotPlayer" THEN "/app/play_bot.sh" ELSE "/app/play_human.sh">>

\* EntrypointOpts with ordinals counted from 1: is_server = nth_player == 1.
EntrypointOpts_ServerIsOne(args) ==
    IF ~args.headless
    THEN <<"--headful">>
    ELSE <<"--game", "game_name", "--name", "player_name",
           "--race", "player_race", "--lan">>
         \o (IF args.nth_player = 1
             THEN <<"--host", "--map", "/app/sc/maps/map_name">>
             ELSE <<"--join">>)

\* lines 307-322
EntrypointOpts(args) ==
    IF ~args.headless
    THEN <<"--headful">>
    ELSE <<"--game", "game_name", "--name", "player_name",
           "--race", "player_race", "--lan">>
         \o (IF args.nth_player = 0
             THEN <<"--host", "--map", "/app/sc/maps/map_name">>
             ELSE <<"--join">>)

\* cmd as handed to subprocess.call at line 327
LaunchCmd(args) ==
    CmdHead \o args.docker_opts \o NetOption(args.docker_opts)
    \o VncPort(args.headless) \o BotMounts(args) \o EnvOptions(EnvKeys(args))
    \o ImageAndScript(args) \o EntrypointOpts(args)

\* launch_image, lines 231-324
BuildCmd ==
    /\ pc = "launch_image"
    /\ entrypoint_opts' = EntrypointOpts(launch_args)
    /\ cmd' = LaunchCmd(launch_args)
    /\ pc' = "cmd_built"
    /\ UNCHANGED <<players, read_overwrite, exc, nth_player, status,
                   state_exit_code, run_calls, run_code, container_id,
                   files_removed, queried, vnc_viewers, start_containers,
                   containers, elapsed, exit_codes, inspected, rm_calls, synced,
                   last_nonempty, seen_multi>>
    /\ UNCHANGED <<stop_calls, rm_args, rm_code>>
    /\ UNCHANGED <<launch_args, host_mount>>

\* launch_image called for every player class, ordinal, mode and option list.
InitCmd ==
    /\ players = <<>>
    /\ read_overwrite = FALSE
    /\ pc = "launch_image"
    /\ exc = "none"
    /\ nth_player = 0
    /\ status = [c \in Ordinals |-> "absent"]
    /\ state_exit_code = [c \in Ordinals |-> 0]
    /\ run_calls = <<>>
    /\ run_code = 0
    /\ container_id = "unset"
    /\ files_removed = FALSE
    /\ queried = FALSE
    /\ vnc_viewers = 0
    /\ start_containers = <<>>
    /\ containers = <<>>
    /\ elapsed = 0
    /\ exit_codes = <<>>
    /\ inspected = {}
    /\ rm_calls = 0
    /\ synced = {}
    /\ last_nonempty = <<>>
    /\ seen_multi = FALSE
    /\ stop_calls = 0
    /\ rm_args = <<>>
    /\ rm_code = 0
    /\ launch_args \in [player : PlayerKinds,
                        nth_player : 0 .. MaxPlayers,
                        headless : BOOLEAN,
                        docker_opts : SeqsUpTo(OptTokens, MaxOpts),
                        java_debug_port : BOOLEAN,
                        timeout : BOOLEAN]
    /\ cmd = <<>>
    /\ entrypoint_opts = <<>>
    /\ host_mount = <<>>

NextCmd == BuildCmd

CmdSpec == InitCmd /\ [][NextCmd]_vars

\* launch_game up to the end of the poll loop (lines 373-426)
NextMonitor ==
    \/ ContainerExit
    \/ Tick
    \/ CheckPlayers
    \/ RemoveExistingFiles
    \/ DockerRun
    \/ LaunchResult
    \/ SettleCheck
    \/ LaunchViewers
    \/ Poll
    \/ CheckContainers
    \/ WaitCallback

\* Scheduling: the control thread runs on, the caller's wait_callback returns
\* and the clock advances.
FairSpec ==
    /\ InitMonitor
    /\ [][NextMonitor]_vars
    /\ WF_vars(Tick)
    /\ WF_vars(Poll)
    /\ WF_vars(CheckContainers)
    /\ WF_vars(WaitCallback)

\* ----------------------------------------------------------------- claims
InLoop == pc \in {"poll", "check", "wait"}

OneRunning == Cardinality({c \in Ordinals : status[c] = "running"}) = 1

\* launch_game is over
Terminated == pc \in {"raised", "returned"}

\* the poll loop was left through the empty poll (line 412)
Finished ==
    \/ pc \in {"inspect", "cleanup", "classify", "sync", "returned"}
    \/ /\ pc = "raised"
       /\ exc \in {"RealtimeOutedException", "ContainerException"}
       /\ Len(containers) = 0

\* the poll loop was left through the lingering-container raise (line 420)
LingeringRaised ==
    pc = "raised" /\ exc = "ContainerException" /\ Len(containers) = 1

\* some unit of the match has exited with this code
ExitedWith(code) ==
    \E c \in Ordinals : status[c] \in {"exited", "removed"} /\ state_exit_code[c] = code

\* C1: when the loop is left through the empty poll, the exit codes are
\* resolved for the last non-empty list a poll observed.
C1_TerminalSetIsLastNonEmpty ==
    (pc \in {"cleanup", "classify", "sync", "returned"} /\ last_nonempty # <<>>)
        => /\ inspected = Range(last_nonempty)
           /\ Len(exit_codes) = Len(last_nonempty)

\* C2: a finished match raises RealtimeOutedException if a unit exited with
\* 2, else ContainerException if a unit exited with 1, else returns.
C2_OutcomeFollowsExitCodes ==
    (Terminated /\ Finished)
        => IF ExitedWith(2) THEN pc = "raised" /\ exc = "RealtimeOutedException"
           ELSE IF ExitedWith(1) THEN pc = "raised" /\ exc = "ContainerException"
           ELSE pc = "returned" /\ exc = "none"

\* C3: an iteration that observed exactly one container, more than
\* MAX_TIME_RUNNING_SINGLE_CONTAINER after the last observation of >= 2
\* containers, raises ContainerException in that iteration; and the loop
\* cannot go on forever once >= 2 containers were observed and exactly one
\* container keeps running.
C3_LingeringRaises ==
    /\ [][(/\ pc = "check"
           /\ pc' # pc
           /\ seen_multi
           /\ Len(containers) = 1
           /\ elapsed > 20)
          => (pc' = "raised" /\ exc' = "ContainerException")]_vars
    /\ ~<>[](InLoop /\ seen_multi /\ OneRunning)

C3_Witness ==
    /\ pc = "raised"
    /\ exc = "ContainerException"
    /\ seen_multi
    /\ Len(containers) = 1
    /\ elapsed > 20

\* C4: when the lingering-container error leaves launch_game, the exit code
\* of the lingering unit was inspected and `docker rm` was issued.
C4_CleanupBeforeLingeringError ==
    LingeringRaised => (Range(containers) \subseteq inspected /\ rm_calls > 0)

\* the launch loop ran to its end and the settle check raised (line 392)
SettleRaised ==
    /\ pc = "raised"
    /\ exc = "DockerException"
    /\ nth_player = Len(players)

NothingAfterSettle ==
    /\ vnc_viewers = 0
    /\ containers = <<>>
    /\ last_nonempty = <<>>
    /\ exit_codes = <<>>
    /\ inspected = {}
    /\ rm_calls = 0
    /\ \A c \in Ordinals : status[c] # "removed"
    /\ synced = {}

\* C5: a settle check that counts a number of running containers other than
\* len(players) raises DockerException, and then no viewer is launched,
\* nothing is polled, inspected, removed or synced, and nothing follows.
C5_IncompleteLaunchStopsAll ==
    /\ [][(/\ pc = "settle"
           /\ pc' # pc
           /\ Len(running_containers) # Len(players))
          => (pc' = "raised" /\ exc' = "DockerException")]_vars
    /\ [](SettleRaised => NothingAfterSettle)
    /\ [][SettleRaised => UNCHANGED vars]_vars

C5_Witness ==
    /\ SettleRaised
    /\ Len(players) >= 2
    /\ Len(start_containers) = Len(players) - 1

C7_SyncOnlyOnSuccess ==
    synced # {}
        => /\ read_overwrite
           /\ ~ExitedWith(1)
           /\ ~ExitedWith(2)
           /\ exc = "none"
           /\ \A pr \in synced : pr[1] = pr[2] /\ players[pr[1] + 1] = "BotPlayer"

\* C8: with an empty player list launch_game raises GameException and has
\* issued no `docker run`, deleted no file and queried nothing.
C8_EmptyPlayersRejectedFirst ==
    Len(players) = 0
        => /\ pc = "start" \/ (pc = "raised" /\ exc = "GameException")
           /\ run_calls = <<>>
           /\ ~files_removed
           /\ ~queried

C8_Witness == Len(players) = 0 /\ pc = "raised" /\ exc = "GameException"

\* C9: the outcome of a sequence of exit codes is RealtimeOutedException if
\* it holds a 2, else ContainerException if it holds a 1, else no error,
\* whatever the order and whatever other codes it holds.
C9_FirstMatchWins ==
    pc # "classify"
        => /\ (2 \in Range(exit_codes))
                => (pc = "raised" /\ exc = "RealtimeOutedException")
           /\ (2 \notin Range(exit_codes) /\ 1 \in Range(exit_codes))
                => (pc = "raised" /\ exc = "ContainerException")
           /\ (2 \notin Range(exit_codes) /\ 1 \notin Range(exit_codes))
                => (pc = "sync" /\ exc = "none")

C9_Witness ==
    /\ exit_codes = <<1, 3, 2>>
    /\ pc = "raised"
    /\ exc = "RealtimeOutedException"

\* C10: the k-th `docker run` is issued for the k-th player with ordinal
\* k - 1, and once every launch succeeded there is one call per player.
C10_LaunchOrder ==
    /\ \A k \in 1 .. Len(run_calls) : run_calls[k] = <<k - 1, players[k]>>
    /\ (nth_player = Len(players) /\ Len(players) > 0)
          => Len(run_calls) = Len(players)

C10_Witness ==
    /\ pc = "settle"
    /\ Len(players) >= 2
    /\ players[1] # players[2]
    /\ Len(run_calls) = Len(players)

\* every unit the settle check observed is gone from the runtime
AllRemoved == \A c \in Range(start_containers) : status[c] = "removed"

\* every unit of the match has exited with code 0
AllExitedZero ==
    \A c \in Ordinals : status[c] \in {"exited", "removed"} /\ state_exit_code[c] = 0

BotOrdinals == {n \in Ordinals : players[n + 1] = "BotPlayer"}

\* the removal step of line 432 is behind
PastCleanup == Finished /\ pc \notin {"inspect", "cleanup"}

\* C11 as claimed: a finished match ends with every unit of the settle
\* check removed; with all exit codes 0 it returns, and the bot directories
\* are copied exactly when read_overwrite is set.
C11_FinishedRemovesAll ==
    (Terminated /\ Finished)
        => /\ AllRemoved
           /\ AllExitedZero
                => /\ pc = "returned"
                   /\ synced = IF read_overwrite
                               THEN {<<n, n>> : n \in BotOrdinals} ELSE {}

\* C11 amended: a finished match issues one `docker rm` for the units of
\* the settle check, all the participants' units, before it returns or
\* raises; the units are removed when that call succeeds; with all exit
\* codes 0 it returns, and the bot directories are copied exactly when
\* read_overwrite is set.
C11_FinishedIssuesRemoval ==
    /\ (Finished /\ ~PastCleanup) => (rm_calls = 0 /\ ~Terminated)
    /\ PastCleanup
        => /\ rm_calls = 1
           /\ rm_args = start_containers
           /\ Range(start_containers) = Ordinals
           /\ (rm_code = 0) => AllRemoved
    /\ (Terminated /\ Finished /\ AllExitedZero)
        => /\ pc = "returned"
           /\ exc = "none"
           /\ synced = IF read_overwrite
                       THEN {<<n, n>> : n \in BotOrdinals} ELSE {}

C11_Witness ==
    /\ pc = "returned"
    /\ players = <<"BotPlayer", "BotPlayer">>
    /\ AllExitedZero
    /\ rm_code = 0
    /\ AllRemoved
    /\ read_overwrite
    /\ synced = {<<0, 0>>, <<1, 1>>}

\* C12: stop_containers and cleanup_containers called with an empty list
\* issue no `docker stop` and no `docker rm`, change nothing in the runtime
\* and raise nothing.
C12_EmptyCleanupIsNoOp ==
    [][(\/ pc = "stop" /\ Len(containers) = 0
        \/ pc = "cleanup" /\ Len(start_containers) = 0)
       => /\ stop_calls' = stop_calls
          /\ rm_calls' = rm_calls
          /\ status' = status
          /\ pc' # "raised"
          /\ exc' = "none"]_vars

C12_Witness ==
    /\ pc = "stopped"
    /\ containers = <<>>
    /\ Len(players) > 0
    /\ \E c \in Ordinals : status[c] = "running"
    /\ stop_calls = 0

\* C13: xoscmounts applied to its own result changes nothing; it turns
\* C:\x into //c/x (drive letter lower-cased, colon dropped, // prefixed,
\* backslash turned).
C13_NormalizeIdempotent ==
    /\ [][pc = "normalized" => host_mount' = host_mount]_vars
    /\ [][(pc = "xoscmounts" /\ host_mount = <<"C", ":", "\\", "x">>)
          => host_mount' = <<"/", "/", "c", "/", "x">>]_vars
    /\ [][(pc = "xoscmounts" /\ host_mount = <<"x", "\\", "C", ":">>)
          => host_mount' = <<"/", "/", "x", "/", "C", ":">>]_vars

C13_Witness ==
    /\ pc = "normalized_twice"
    /\ host_mount = <<"/", "/", "c", "/", "x">>

\* the tokens that set the network of a `docker run`
NetTokens == {"--net", "--network", "--net=host"}

\* number of network settings in a token list
NetCount(tokens) == Cardinality({k \in 1 .. Len(tokens) : tokens[k] \in NetTokens})

\* C14: docker_opts stand verbatim in the command, before the computed
\* `--net sc_net`; for an option list that sets the network at most once the
\* command holds exactly one network setting: the caller's if there is one,
\* else the default.
C14_OneNetworkSetting ==
    (pc = "cmd_built" /\ NetCount(launch_args.docker_opts) <= 1)
        => LET opts == launch_args.docker_opts
               after == Len(CmdHead) + Len(opts)
           IN /\ SubSeq(cmd, Len(CmdHead) + 1, after) = opts
              /\ NetCount(cmd) = 1
              /\ IF NetCount(opts) = 1
                 THEN "sc_net" \notin Range(cmd)
                 ELSE cmd[after + 1] = "--net" /\ cmd[after + 2] = "sc_net"

\* C15: a headless unit of ordinal 0 is launched with --host and the map
\* path and without --join, one of ordinal >= 1 with --join and without
\* --host; a unit that is not headless gets --headful alone.  The
\* entrypoint options end the command.
C15_HostAndJoin ==
    pc = "cmd_built"
        => /\ SubSeq(cmd, Len(cmd) - Len(entrypoint_opts) + 1, Len(cmd)) = entrypoint_opts
           /\ IF launch_args.headless
              THEN IF launch_args.nth_player = 0
                   THEN /\ \E k \in 1 .. Len(entrypoint_opts) - 2 :
                              /\ entrypoint_opts[k] = "--host"
                              /\ entrypoint_opts[k + 1] = "--map"
                              /\ entrypoint_opts[k + 2] = "/app/sc/maps/map_name"
                        /\ "--join" \notin Range(entrypoint_opts)
                   ELSE /\ "--join" \in Range(entrypoint_opts)
                        /\ "--host" \notin Range(entrypoint_opts)
                        /\ "--map" \notin Range(entrypoint_opts)
              ELSE entrypoint_opts = <<"--headful">>

C15_Witness ==
    /\ pc = "cmd_built"
    /\ launch_args.headless
    /\ launch_args.nth_player = 2
    /\ "--join" \in Range(cmd)

\* C16: once a unit has been handed to `docker rm`, the exit code of every
\* unit of the terminal set, the last non-empty set a poll observed, has
\* been resolved, and no exit code is asked for after the removal.
C16_ResolvedBeforeRemoval ==
    rm_calls > 0
        => /\ Range(last_nonempty) \subseteq inspected
           /\ pc # "inspect"

\* C17: the poll loop is left only from the test of a poll's result, either
\* to the exit-code step on an empty poll or by the ContainerException of a
\* single container past the timeout; a poll of >= 2 containers always goes
\* on to wait_callback, whatever time has passed, and every iteration that
\* stays in the loop passes wait_callback once: check -> wait -> poll.
C17_TwoLoopExits ==
    [][/\ (InLoop /\ ~InLoop')
            => /\ pc = "check"
               /\ \/ Len(containers) = 0 /\ pc' = "inspect" /\ exc' = "none"
                  \/ /\ Len(containers) = 1
                     /\ elapsed > MAX_TIME_RUNNING_SINGLE_CONTAINER
                     /\ pc' = "raised"
                     /\ exc' = "ContainerException"
       /\ (pc = "check" /\ Len(containers) >= 2 /\ pc' # pc) => pc' = "wait"
       /\ (pc = "check" /\ InLoop' /\ pc' # pc) => pc' = "wait"
       /\ (pc = "wait" /\ pc' # pc) => pc' = "poll"
       /\ (pc' = "wait" /\ pc # "wait") => pc = "check"
       /\ (pc' = "poll" /\ pc # "poll") => pc \in {"wait", "viewers"}]_vars

C17_Witness ==
    /\ pc = "wait"
    /\ Len(containers) >= 2
    /\ elapsed > MAX_TIME_RUNNING_SINGLE_CONTAINER

\* C18: the removal step raises nothing and leaves exit_codes alone, whatever
\* the status of `docker rm`; the way launch_game ends after a finished
\* match follows from exit_codes alone.
C18_CleanupNeverEscalates ==
    /\ [][(pc = "cleanup" /\ pc' # pc)
            => /\ pc' = "classify"
               /\ exc' = exc
               /\ exit_codes' = exit_codes]_vars
    /\ [](PastCleanup => (exc = "none" \/ exc = Classify(exit_codes)))
    /\ []((Terminated /\ Finished)
            => /\ exc = Classify(exit_codes)
               /\ (pc = "returned") = (Classify(exit_codes) = "none"))

C18_Witness ==
    /\ pc = "returned"
    /\ rm_calls = 1
    /\ rm_code = 1
    /\ \E c \in Ordinals : status[c] = "exited"

\* launch_image raised for the unit of ordinal nth_player (line 339)
LaunchRaised ==
    /\ pc = "raised"
    /\ exc = "DockerException"
    /\ nth_player < Len(players)

\* C19: a failed `docker run` for ordinal k raises DockerException at once
\* and ends launch_game: there is no `docker run` for an ordinal > k, and
\* for the units of ordinals < k no stop, no removal and no exit-code
\* inspection; they are left as they were.
C19_LaunchFailureAbortsAtOnce ==
    /\ [][(pc = "launched" /\ run_code # 0 /\ pc' # pc)
            => /\ pc' = "raised"
               /\ exc' = "DockerException"
               /\ status' = status
               /\ run_calls' = run_calls]_vars
    /\ [][~LaunchRaised]_vars
    /\ [](LaunchRaised
            => /\ Len(run_calls) = nth_player + 1
               /\ \A c \in Ordinals :
                     /\ c < nth_player => status[c] \in {"running", "exited"}
                     /\ c >= nth_player => status[c] = "absent"
               /\ stop_calls = 0
               /\ rm_calls = 0
               /\ inspected = {})

C19_Witness ==
    /\ LaunchRaised
    /\ nth_player = 1
    /\ Len(players) > 1
    /\ status[0] = "running"

\* C20: the time since running_time starts at 0 when the loop is entered and
\* goes back to 0 only in the test of a poll that observed >= 2 containers;
\* a single container observed past the timeout raises ContainerException
\* whether or not >= 2 containers were ever observed, so the loop of a match
\* of one player cannot go on forever while its container keeps running.
C20_TimeoutWithoutMultiPoll ==
    /\ [][/\ (pc = "viewers" /\ pc' = "poll") => elapsed' = 0
          /\ (InLoop /\ elapsed' # elapsed /\ elapsed' <= elapsed)
                => (pc = "check" /\ Len(containers) >= 2 /\ elapsed' = 0)
          /\ (pc = "check" /\ Len(containers) >= 2 /\ pc' # pc) => elapsed' = 0
          /\ (/\ pc = "check"
              /\ pc' # pc
              /\ Len(containers) = 1
              /\ elapsed > MAX_TIME_RUNNING_SINGLE_CONTAINER)
                => (pc' = "raised" /\ exc' = "ContainerException")]_vars
    /\ ~<>[](InLoop /\ Len(players) = 1 /\ OneRunning)

C20_Witness ==
    /\ LingeringRaised
    /\ ~seen_multi
    /\ Len(players) = 1
    /\ status[0] = "running"

====
